---- MODULE Spec2Model ----
(***************************************************************************)
(* Model of the Login component (src/src/Login.js).                        *)
(*                                                                         *)
(* The component holds two pieces of hook state, username and password,    *)
(* and renders a form with two required, controlled inputs and a submit    *)
(* button, followed, outside the form, by a sign-up div and a Kakao login  *)
(* button.  Every DOM event is dispatched to completion, and React         *)
(* re-renders synchronously after a discrete event, so each action below   *)
(* is one event together with the render that follows it.                  *)
(*                                                                         *)
(* Strings are modelled as sequences of characters, '' being <<>>.         *)
(***************************************************************************)
EXTENDS Naturals, Sequences, FiniteSets, TLC

\* Longest string typed into a field.
MaxLen == 2

\* Characters a user may type; the blank is there so that trimming shows.
Chars == {"a", " "}

Strings == UNION {[1..n -> Chars] : n \in 0..MaxLen}

\* The address the document holding the component was loaded from.
PageUrl == "http://localhost:3000/"

\* Login.js:15, the address handleKakaoLogin assigns to window.location.href.
KakaoUrl == "http://localhost:8000/login/kakao"

VARIABLES
    mounted,    \* whether a Login instance is mounted
    username,   \* useState('') , Login.js:5
    password,   \* useState('') , Login.js:6
    view,       \* values of the last render: the inputs' value props and
                \* the values handleLogin closes over
    lastInput,  \* e.target.value of the last change event of each input
                \* since mount (the initial value before any edit)
    lastEvent,  \* type of the event handled last
    effects,    \* what the handling of the last event did to the outside
    location,   \* window.location.href
    discarded   \* hook state thrown away by the last unmount

vars == <<mounted, username, password, view, lastInput, lastEvent, effects,
          location, discarded>>

----------------------------------------------------------------------------
\* Pure parts of the component.

\* Login.js:5-6, the arguments of useState.
InitialState == [username |-> <<>>, password |-> <<>>]

\* Login.js:18-53: a render binds value={username}, value={password} and
\* creates handleLogin closed over the same two values.
Render(u, p) == [username |-> u, password |-> p]

\* Variant: the setter drops a trailing blank before storing.
setUsername_trimmed(value) ==
    IF Len(value) > 0 /\ value[Len(value)] = " "
    THEN SubSeq(value, 1, Len(value) - 1)
    ELSE value

\* Login.js:29, setUsername(e.target.value): the value is stored as passed.
setUsername(value) == value

\* Login.js:41, setPassword(e.target.value).
setPassword(value) == value

\* Variant: only the username input carries `required`.
CheckValidity_usernameOnly(v) == Len(v.username) > 0

\* Login.js:32,44: both inputs carry `required`; the form is valid when no
\* input suffers from a missing value, that is when neither value is ''.
CheckValidity(v) == Len(v.username) > 0 /\ Len(v.password) > 0

\* Nothing happened outside the component.
NoEffects ==
    [handleLogin |-> 0,        \* invocations of handleLogin
     console     |-> <<>>,     \* objects passed to console.log
     auth        |-> <<>>,     \* payloads handed to an authentication call
     prevented   |-> FALSE,    \* e.preventDefault() was called
     navigated   |-> FALSE,    \* the form's default navigation took place
     signUp      |-> <<>>,     \* argument lists of calls of onClickSignUp
     href        |-> <<>>]     \* values assigned to window.location.href

\* Variant: the handler forgets e.preventDefault().
handleLogin_noPreventDefault(v) ==
    [NoEffects EXCEPT
        !.handleLogin = 1,
        !.console     = <<[username |-> v.username, password |-> v.password]>>]

\* Login.js:8-12: preventDefault, then console.log of { username, password }
\* as closed over by the render v.  Line 11 is a comment where the real
\* login processing (an API call) is still to be added: nothing is handed to
\* any authentication collaborator.
handleLogin(v) ==
    [NoEffects EXCEPT
        !.handleLogin = 1,
        !.prevented   = TRUE,
        !.console     = <<[username |-> v.username, password |-> v.password]>>]

\* Variant: the target carries a hint once a username has been typed.
handleKakaoLogin_hint ==
    [NoEffects EXCEPT !.href =
        <<IF Len(view.username) > 0
          THEN "http://localhost:8000/login/kakao?login_hint"
          ELSE KakaoUrl>>]

\* Login.js:14-16.
handleKakaoLogin == [NoEffects EXCEPT !.href = <<KakaoUrl>>]

\* Login.js:49, onClick={onClickSignUp}: React calls an onClick handler with
\* the synthetic click event, so the callback receives one argument.
SignUpClickArgs == <<"SyntheticEvent">>

----------------------------------------------------------------------------
Init ==
    /\ mounted = TRUE
    /\ username = InitialState.username
    /\ password = InitialState.password
    /\ view = Render(InitialState.username, InitialState.password)
    /\ lastInput = InitialState
    /\ lastEvent = "mount"
    /\ effects = NoEffects
    /\ location = PageUrl
    /\ discarded = InitialState

\* Variant: a new instance starts from what the previous one held.
Mount_restore ==
    /\ ~mounted
    /\ mounted' = TRUE
    /\ username' = discarded.username
    /\ password' = discarded.password
    /\ view' = Render(username', password')
    /\ lastInput' = InitialState
    /\ lastEvent' = "mount"
    /\ effects' = NoEffects
    /\ UNCHANGED <<location, discarded>>

\* Login.js:4-6: a new instance starts from the useState arguments.
Mount ==
    /\ ~mounted
    /\ mounted' = TRUE
    /\ username' = InitialState.username
    /\ password' = InitialState.password
    /\ view' = Render(InitialState.username, InitialState.password)
    /\ lastInput' = InitialState
    /\ lastEvent' = "mount"
    /\ effects' = NoEffects
    /\ UNCHANGED <<location, discarded>>

\* The parent removes the component (or the document is unloaded): the hook
\* state is dropped; nothing in Login.js saves it.
Unmount ==
    /\ mounted
    /\ mounted' = FALSE
    /\ discarded' = [username |-> username, password |-> password]
    /\ lastEvent' = "unmount"
    /\ effects' = NoEffects
    /\ UNCHANGED <<username, password, view, lastInput, location>>

\* Variant: an edit of the username resets the password.
ChangeUsername_clearsPassword(v) ==
    /\ mounted
    /\ username' = setUsername(v)
    /\ password' = InitialState.password
    /\ view' = Render(username', password')
    /\ lastInput' = [lastInput EXCEPT !.username = v]
    /\ lastEvent' = "changeUsername"
    /\ effects' = NoEffects
    /\ UNCHANGED <<mounted, location, discarded>>

\* Login.js:25-33: change event of the username input with e.target.value = v.
ChangeUsername(v) ==
    /\ mounted
    /\ username' = setUsername(v)
    /\ password' = password
    /\ view' = Render(username', password')
    /\ lastInput' = [lastInput EXCEPT !.username = v]
    /\ lastEvent' = "changeUsername"
    /\ effects' = NoEffects
    /\ UNCHANGED <<mounted, location, discarded>>

\* Login.js:37-45: change event of the password input with e.target.value = v.
ChangePassword(v) ==
    /\ mounted
    /\ password' = setPassword(v)
    /\ username' = username
    /\ view' = Render(username', password')
    /\ lastInput' = [lastInput EXCEPT !.password = v]
    /\ lastEvent' = "changePassword"
    /\ effects' = NoEffects
    /\ UNCHANGED <<mounted, location, discarded>>

\* Variant: an accepted submission clears the two fields.
SubmitAttempt_clears ==
    /\ mounted
    /\ lastEvent' = "submit"
    /\ IF CheckValidity(view)
       THEN LET r == handleLogin(view) IN
            /\ effects' = [r EXCEPT !.navigated = ~r.prevented]
            /\ mounted' = r.prevented
            /\ discarded' = IF r.prevented THEN discarded
                            ELSE [username |-> username, password |-> password]
            /\ username' = InitialState.username
            /\ password' = InitialState.password
            /\ view' = Render(username', password')
       ELSE /\ effects' = NoEffects
            /\ UNCHANGED <<mounted, discarded, username, password, view>>
    /\ UNCHANGED <<lastInput, location>>

\* Login.js:21,47: a click on the submit button.  The browser validates the
\* form's required inputs first; only a valid form fires the submit event,
\* which runs handleLogin.  If the handler did not prevent the default, the
\* form would navigate and the document, with the component, would be gone.
SubmitAttempt ==
    /\ mounted
    /\ lastEvent' = "submit"
    /\ IF CheckValidity(view)
       THEN LET r == handleLogin(view) IN
            /\ effects' = [r EXCEPT !.navigated = ~r.prevented]
            /\ mounted' = r.prevented
            /\ discarded' = IF r.prevented THEN discarded
                            ELSE [username |-> username, password |-> password]
       ELSE /\ effects' = NoEffects
            /\ UNCHANGED <<mounted, discarded>>
    /\ UNCHANGED <<username, password, view, lastInput, location>>

\* Login.js:49: a click on the sign-up div, which is not inside the form.
ClickSignUp ==
    /\ mounted
    /\ lastEvent' = "signUp"
    /\ effects' = [NoEffects EXCEPT !.signUp = <<SignUpClickArgs>>]
    /\ UNCHANGED <<mounted, username, password, view, lastInput, location,
                   discarded>>

\* Variant: the Kakao button sits inside the form, where a button without a
\* type submits the form after its own click handler has run.
ClickKakao_insideForm ==
    /\ mounted
    /\ lastEvent' = "kakao"
    /\ effects' = IF CheckValidity(view)
                  THEN [handleLogin(view) EXCEPT !.href = <<KakaoUrl>>]
                  ELSE handleKakaoLogin
    /\ location' = KakaoUrl
    /\ UNCHANGED <<mounted, username, password, view, lastInput, discarded>>

\* Login.js:50: a click on the Kakao button, which is not inside the form.
ClickKakao ==
    /\ mounted
    /\ lastEvent' = "kakao"
    /\ effects' = handleKakaoLogin
    /\ location' = effects'.href[Len(effects'.href)]
    /\ UNCHANGED <<mounted, username, password, view, lastInput, discarded>>

Next ==
    \/ Mount
    \/ Unmount
    \/ \E v \in Strings : ChangeUsername(v)
    \/ \E v \in Strings : ChangePassword(v)
    \/ SubmitAttempt
    \/ ClickSignUp
    \/ ClickKakao

Spec == Init /\ [][Next]_vars

----------------------------------------------------------------------------
\* Properties.

\* The record the submit handler is expected to package.
Credentials == [username |-> username, password |-> password]

\* C1: after a submit attempt, handleLogin has run exactly when neither the
\* username nor the password is the empty string.
C1_SubmitGatedOnBothFields ==
    lastEvent = "submit" =>
        (effects.handleLogin > 0 <=> (username # <<>> /\ password # <<>>))

C1_Witness ==
    /\ lastEvent = "submit"
    /\ username # <<>> /\ password = <<>>
    /\ effects.handleLogin = 0

\* C2: while mounted, the state of each field and the value shown in its
\* input equal the last value a change event of that field carried, blanks
\* and the empty string included.
C2_FieldHoldsLastInput ==
    mounted =>
        /\ username = lastInput.username /\ view.username = lastInput.username
        /\ password = lastInput.password /\ view.password = lastInput.password

C2_Witness ==
    /\ lastEvent = "changeUsername"
    /\ lastInput.username = <<"a", " ">>
    /\ username = <<"a", " ">>
    /\ lastInput.password = <<" ">>

\* C3: a submit attempt with both fields non-empty runs handleLogin exactly
\* once, logs exactly the record of the current field values (which are the
\* values typed last), prevents the default and does not navigate.
C3_SubmitOncePayloadCurrent ==
    (lastEvent = "submit" /\ username # <<>> /\ password # <<>>) =>
        /\ effects.handleLogin = 1
        /\ effects.console = <<Credentials>>
        /\ effects.console = <<lastInput>>
        /\ effects.prevented
        /\ ~effects.navigated
        /\ mounted

C3_Witness ==
    /\ lastEvent = "submit"
    /\ effects.handleLogin = 1
    /\ effects.console = <<[username |-> <<"a">>, password |-> <<" ", "a">>]>>

\* C4 (as claimed): a click on the sign-up control calls onClickSignUp once
\* with an empty argument list.
C4_SignUpCalledWithNoArguments ==
    lastEvent = "signUp" => effects.signUp = << <<>> >>

\* C5: a click on the Kakao button assigns window.location.href exactly once,
\* always to the same fixed address, whatever the fields hold.
C5_KakaoTargetFixed ==
    lastEvent = "kakao" =>
        /\ effects.href = <<"http://localhost:8000/login/kakao">>
        /\ location = "http://localhost:8000/login/kakao"

C5_Witness ==
    /\ lastEvent = "kakao"
    /\ username = <<>> /\ password = <<>>
    /\ location = "http://localhost:8000/login/kakao"
    /\ discarded.username # <<>>

\* C6 (as claimed): every accepted submit hands the packaged record to an
\* authentication collaborator once.
C6_SubmitHandsOffPayload ==
    (lastEvent = "submit" /\ effects.handleLogin = 1) =>
        effects.auth = <<Credentials>>

\* C7: right after a mount both fields are empty and the form is not
\* submittable, whatever the previous instance held; and a submission is
\* accepted only after each field has received a non-empty input since the
\* mount.
C7_FreshStateAtMount ==
    /\ lastEvent = "mount" =>
          /\ mounted
          /\ username = <<>> /\ password = <<>>
          /\ view.username = <<>> /\ view.password = <<>>
    /\ effects.handleLogin > 0 =>
          (lastInput.username # <<>> /\ lastInput.password # <<>>)

C7_Witness ==
    /\ lastEvent = "mount"
    /\ discarded.username # <<>> /\ discarded.password # <<>>
    /\ username = <<>> /\ password = <<>>

\* C8: an edit of the username leaves the password as it was, and an edit of
\* the password leaves the username as it was.
C8_FieldsIndependent ==
    [][ /\ lastEvent' = "changeUsername" =>
            (password' = password /\ view'.password = view.password)
        /\ lastEvent' = "changePassword" =>
            (username' = username /\ view'.username = view.username) ]_vars

C8_Witness ==
    /\ lastEvent = "changeUsername"
    /\ username = <<>>
    /\ password # <<>>

\* C9: a submit, a Kakao click and a sign-up click leave both fields, what
\* the inputs show and the mounted instance as they were, so that after an
\* accepted submit the form is still submittable.
C9_ActionsKeepFields ==
    [][ lastEvent' \in {"submit", "kakao", "signUp"} =>
            /\ username' = username /\ password' = password
            /\ view' = view
            /\ mounted' = mounted ]_vars

C9_Witness ==
    /\ lastEvent = "submit"
    /\ effects.handleLogin = 1
    /\ username # <<>> /\ password # <<>>
    /\ view = Credentials

\* C10: a click on the Kakao button or on the sign-up control never runs
\* handleLogin and has its effect even when the form is invalid; a submit
\* never assigns the location and never calls onClickSignUp.
C10_ControlsOutsideForm ==
    /\ lastEvent = "kakao" =>
          (effects.handleLogin = 0 /\ Len(effects.href) = 1
           /\ effects.signUp = <<>>)
    /\ lastEvent = "signUp" =>
          (effects.handleLogin = 0 /\ Len(effects.signUp) = 1
           /\ effects.href = <<>>)
    /\ lastEvent = "submit" =>
          (effects.href = <<>> /\ effects.signUp = <<>>)

C10_Witness ==
    /\ lastEvent = "kakao"
    /\ username # <<>> /\ password # <<>>
    /\ effects.handleLogin = 0
    /\ Len(effects.href) = 1

TypeOK ==
    /\ mounted \in BOOLEAN
    /\ username \in Strings /\ password \in Strings
    /\ view \in [username : Strings, password : Strings]
    /\ lastEvent \in {"mount", "unmount", "changeUsername", "changePassword",
                      "submit", "signUp", "kakao"}
    /\ location \in {PageUrl, KakaoUrl}
====
